---- MODULE Spec2Model ----
(***************************************************************************)
(* Model of FuturisticTodo (src/To-do list/futuristic_todo.py): the task   *)
(* collection self.tasks, the backing JSON file, and the handlers that     *)
(* read and write them.                                                    *)
(*                                                                         *)
(* Python values are modelled as tagged records [t, s, n]: t is the Python *)
(* type, s the characters of a str, n the number carried by an int, a bool *)
(* or a timestamp string.  A key that is missing from a dict is the value  *)
(* Absent.  JSON values have the same shape with JSON type names, so that  *)
(* json.dump and json.load are conversions and not the identity.           *)
(***************************************************************************)
EXTENDS Integers, Sequences, FiniteSets, TLC

\* ---------------------------------------------------------------- bounds
MaxTasks == 5
MaxOps == 2
MaxClock == 1

\* ------------------------------------------------------- Python values
Val(t, s, n) == [t |-> t, s |-> s, n |-> n]
PyStr(s) == Val("str", s, 0)
PyNone == Val("NoneType", <<>>, 0)
PyBool(b) == Val("bool", <<>>, IF b THEN 1 ELSE 0)
PyInt(n) == Val("int", <<>>, n)
Absent == Val("absent", <<>>, 0)

\* bool(v): the truth value Python gives a value in `if v` / `not v`
Truthy(v) ==
    CASE v.t = "str" -> v.s # <<>>
      [] v.t = "bool" -> v.n = 1
      [] v.t = "int" -> v.n # 0
      [] OTHER -> FALSE

\* datetime.isoformat(): a str that carries the instant n
isoformat(n) == Val("str", <<"iso">>, n)

\* datetime.fromisoformat(v) raises unless v is a str in ISO format
fromisoformatRaises(v) == ~(v.t = "str" /\ v.s = <<"iso">>)
fromisoformat(v) == v.n

\* str(uuid.uuid4()): the n-th identifier drawn
uuid4(n) == Val("str", <<"uuid">>, n)

\* ------------------------------------------------------------- strings
IsSpace(c) == c \in {" ", "\t", "\n"}

RECURSIVE lstrip(_)
lstrip(s) == IF s # <<>> /\ IsSpace(Head(s)) THEN lstrip(Tail(s)) ELSE s

RECURSIVE rstrip(_)
rstrip(s) ==
    IF s # <<>> /\ IsSpace(s[Len(s)]) THEN rstrip(SubSeq(s, 1, Len(s) - 1)) ELSE s

\* add_task without the strip()
strip_missing(s) == s

\* str.strip()
strip(s) == rstrip(lstrip(s))

lowerChar(c) ==
    CASE c = "A" -> "a" [] c = "B" -> "b" [] c = "C" -> "c" [] c = "D" -> "d"
      [] c = "E" -> "e" [] c = "F" -> "f" [] c = "G" -> "g" [] c = "H" -> "h"
      [] c = "I" -> "i" [] c = "J" -> "j" [] c = "K" -> "k" [] c = "L" -> "l"
      [] c = "M" -> "m" [] c = "N" -> "n" [] c = "O" -> "o" [] c = "P" -> "p"
      [] c = "Q" -> "q" [] c = "R" -> "r" [] c = "S" -> "s" [] c = "T" -> "t"
      [] c = "U" -> "u" [] c = "V" -> "v" [] c = "W" -> "w" [] c = "X" -> "x"
      [] c = "Y" -> "y" [] c = "Z" -> "z"
      [] OTHER -> c

\* a lower() that leaves the case as it is
lower_missing(s) == s

\* str.lower()
lower(s) == [i \in 1..Len(s) |-> lowerChar(s[i])]

Digit(c) ==
    CASE c = "0" -> 0 [] c = "1" -> 1 [] c = "2" -> 2 [] c = "3" -> 3
      [] c = "4" -> 4 [] c = "5" -> 5 [] c = "6" -> 6 [] c = "7" -> 7
      [] c = "8" -> 8 [] c = "9" -> 9

IsDigit(c) == c \in {"0", "1", "2", "3", "4", "5", "6", "7", "8", "9"}

\* int(s) raises ValueError unless s is a non-empty string of digits
intRaises(s) == s = <<>> \/ \E i \in 1..Len(s) : ~IsDigit(s[i])

RECURSIVE int(_)
int(s) == IF s = <<>> THEN 0 ELSE 10 * int(SubSeq(s, 1, Len(s) - 1)) + Digit(s[Len(s)])

\* ----------------------------------------------------------- datetime
IsLeap(y) == (y % 4 = 0 /\ y % 100 # 0) \/ y % 400 = 0

DaysInMonth(y, m) ==
    CASE m = 2 -> IF IsLeap(y) THEN 29 ELSE 28
      [] m \in {4, 6, 9, 11} -> 30
      [] OTHER -> 31

\* datetime(y, m, d, h, mi) raises ValueError outside the calendar
datetimeRaises(y, m, d, h, mi) ==
    ~(/\ y \in 1..9999
      /\ m \in 1..12
      /\ d \in 1..DaysInMonth(y, m)
      /\ h \in 0..23
      /\ mi \in 0..59)

\* the instant of a datetime, in minutes
datetime(y, m, d, h, mi) == (((y * 12 + (m - 1)) * 31 + (d - 1)) * 24 + h) * 60 + mi

\* ---------------------------------------------------------- task dicts
Keys == {"id", "text", "completed", "priority", "due_date", "due_time",
         "created_at", "notes", "completed_at", "updated_at"}

NoKeys == [k \in Keys |-> Absent]

\* an element of self.tasks: a dict, or (after an import) any other value
Dict(d) == [py |-> "dict", d |-> d]
Number == [py |-> "int", d |-> NoKeys]

\* t[k] raises TypeError on a non-dict and KeyError on a missing key
GetRaises(t, k) == t.py # "dict" \/ t.d[k] = Absent
Get(t, k) == t.d[k]

\* t.get(k, default) raises AttributeError on a non-dict
GetOr(t, k, default) == IF t.d[k] = Absent THEN default ELSE t.d[k]

Set(t, k, v) == [t EXCEPT !.d[k] = v]

\* ---------------------------------------------------------------- JSON
\* json.dump of one value
JsonDumpVal(v) ==
    CASE v.t = "str" -> Val("string", v.s, v.n)
      [] v.t = "NoneType" -> Val("null", <<>>, 0)
      [] v.t = "bool" -> Val(IF v.n = 1 THEN "true" ELSE "false", <<>>, 0)
      [] v.t = "int" -> Val("number", <<>>, v.n)
      [] OTHER -> v

\* json.load of one value
JsonLoadVal(j) ==
    CASE j.t = "string" -> Val("str", j.s, j.n)
      [] j.t = "null" -> PyNone
      [] j.t = "true" -> PyBool(TRUE)
      [] j.t = "false" -> PyBool(FALSE)
      [] j.t = "number" -> PyInt(j.n)
      [] OTHER -> j

JsonDumpItem(t) ==
    [js |-> IF t.py = "dict" THEN "object" ELSE "number",
     d |-> [k \in Keys |-> JsonDumpVal(t.d[k])]]

JsonLoadItem(j) ==
    [py |-> IF j.js = "object" THEN "dict" ELSE "int",
     d |-> [k \in Keys |-> JsonLoadVal(j.d[k])]]

\* json.dump(self.tasks, f): the text of a JSON array
JsonDump(ts) == [kind |-> "array", items |-> [i \in 1..Len(ts) |-> JsonDumpItem(ts[i])]]

\* a json.load that returns the array back to front
JsonLoad_reversed(doc) ==
    [i \in 1..Len(doc.items) |-> JsonLoadItem(doc.items[Len(doc.items) + 1 - i])]

\* json.load(f) of a file holding a JSON array
JsonLoad(doc) == [i \in 1..Len(doc.items) |-> JsonLoadItem(doc.items[i])]

\* a file that does not exist, cannot be opened, or is not JSON text
NoFile == [kind |-> "absent", items |-> <<>>]
Unreadable == [kind |-> "unreadable", items |-> <<>>]
Malformed == [kind |-> "malformed", items |-> <<>>]
JsonObject == [kind |-> "object", items |-> <<>>]

\* ------------------------------------------------------ query and render
Low == <<"L", "o", "w">>
Medium == <<"M", "e", "d", "i", "u", "m">>
High == <<"H", "i", "g", "h">>
Critical == <<"C", "r", "i", "t", "i", "c", "a", "l">>

\* the priorities as get_filtered_tasks spells them
medium == <<"m", "e", "d", "i", "u", "m">>
high == <<"h", "i", "g", "h">>
critical == <<"c", "r", "i", "t", "i", "c", "a", "l">>

\* needle in haystack, for two str
Contains(hay, needle) ==
    \E i \in 0..(Len(hay) - Len(needle)) : SubSeq(hay, i + 1, i + Len(needle)) = needle

\* t['text'].lower() raises unless text is present and a str
TextLowerRaises(t) == GetRaises(t, "text") \/ Get(t, "text").t # "str"

\* t.get('notes', '').lower() raises unless t is a dict with a str (or no) notes
NotesLowerRaises(t) == t.py # "dict" \/ GetOr(t, "notes", PyStr(<<>>)).t # "str"

SearchMatch(t, q) ==
    \/ Contains(lower(Get(t, "text").s), q)
    \/ Contains(lower(GetOr(t, "notes", PyStr(<<>>)).s), q)

SearchMatchRaises(t, q) ==
    \/ TextLowerRaises(t)
    \/ (~Contains(lower(Get(t, "text").s), q) /\ NotesLowerRaises(t))

\* get_filtered_tasks without the category filter
FilterMatch_all(t, f) == TRUE

FilterMatch(t, f) ==
    CASE f = "pending" -> ~Truthy(Get(t, "completed"))
      [] f = "completed" -> Truthy(Get(t, "completed"))
      [] f = "high" -> Get(t, "priority") \in {PyStr(high), PyStr(critical)}
      [] OTHER -> TRUE

FilterMatchRaises(t, f) ==
    CASE f \in {"pending", "completed"} -> GetRaises(t, "completed")
      [] f = "high" -> GetRaises(t, "priority")
      [] OTHER -> FALSE

\* priority_order.get(p, 1)
priority_order(p) ==
    CASE p = PyStr(critical) -> 4
      [] p = PyStr(high) -> 3
      [] p = PyStr(medium) -> 2
      [] OTHER -> 1

sort_keyRaises(t) ==
    \/ GetRaises(t, "priority")
    \/ GetRaises(t, "created_at")
    \/ fromisoformatRaises(Get(t, "created_at"))

\* sort_key without the minus sign on the priority
sort_key_ascending(t) ==
    <<priority_order(Get(t, "priority")), 0 - fromisoformat(Get(t, "created_at"))>>

sort_key(t) == <<0 - priority_order(Get(t, "priority")), 0 - fromisoformat(Get(t, "created_at"))>>

\* tuple comparison a < b
KeyLess(a, b) == a[1] < b[1] \/ (a[1] = b[1] /\ a[2] < b[2])

\* insert t after every element whose key is not greater (keeps sorted() stable)
RECURSIVE InsertSorted(_, _)
InsertSorted(sorted, t) ==
    IF sorted = <<>> THEN <<t>>
    ELSE IF KeyLess(sort_key(t), sort_key(Head(sorted)))
         THEN <<t>> \o sorted
         ELSE <<Head(sorted)>> \o InsertSorted(Tail(sorted), t)

\* sorted(ts, key=sort_key)
RECURSIVE sorted(_)
sorted(ts) ==
    IF ts = <<>> THEN <<>>
    ELSE InsertSorted(sorted(SubSeq(ts, 1, Len(ts) - 1)), ts[Len(ts)])

Searched(ts, q) == IF q # <<>> THEN SelectSeq(ts, LAMBDA t : SearchMatch(t, q)) ELSE ts

Filtered(ts, q, f) == SelectSeq(Searched(ts, q), LAMBDA t : FilterMatch(t, f))

get_filtered_tasksRaises(ts, q, f) ==
    LET searchRaises == q # <<>> /\ \E i \in 1..Len(ts) : SearchMatchRaises(ts[i], q)
        searched == Searched(ts, q)
        filterRaises == \E i \in 1..Len(searched) : FilterMatchRaises(searched[i], f)
        filtered == SelectSeq(searched, LAMBDA t : FilterMatch(t, f))
    IN  \/ searchRaises
        \/ ~searchRaises /\ filterRaises
        \/ ~searchRaises /\ ~filterRaises
              /\ \E i \in 1..Len(filtered) : sort_keyRaises(filtered[i])

get_filtered_tasks(ts, q, f) == sorted(Filtered(ts, q, f))

create_task_widgetRaises(t) ==
    \/ GetRaises(t, "priority")
    \/ GetRaises(t, "completed")
    \/ GetRaises(t, "text")
    \/ Get(t, "priority").t # "str"
    \/ GetRaises(t, "due_date")
    \/ (Truthy(Get(t, "due_date")) /\ fromisoformatRaises(Get(t, "due_date")))
    \/ GetRaises(t, "created_at")
    \/ fromisoformatRaises(Get(t, "created_at"))

render_tasksRaises(ts, q, f) ==
    LET filterRaises == get_filtered_tasksRaises(ts, q, f)
        filtered == Filtered(ts, q, f)
    IN  \/ filterRaises
        \/ ~filterRaises /\ \E i \in 1..Len(filtered) : create_task_widgetRaises(filtered[i])

\* -------------------------------------------------------------- statistics
update_statsRaises(ts) == \E i \in 1..Len(ts) : GetRaises(ts[i], "completed")

CountCompleted(ts) == Cardinality({i \in 1..Len(ts) : Truthy(Get(ts[i], "completed"))})

StatsOf(ts) ==
    [total |-> Len(ts),
     completed |-> CountCompleted(ts),
     pending |-> Len(ts) - CountCompleted(ts)]

\* ------------------------------------------------------------------ state
VARIABLES
    tasks,          \* self.tasks
    file,           \* the content of self.data_file on disk
    current_filter, \* self.current_filter
    search_query,   \* self.search_query
    stats,          \* self.stats_vars
    pc,             \* "start" before __init__ has run, then "idle"; "crashed" if it raised
    now,            \* the reading of datetime.now()
    uuids,          \* how many uuid4() values have been drawn
    nops,           \* handlers run so far
    disk,           \* the condition of the disk during the session
    last,           \* the last handler run: its inputs and what it reported
    status_var,     \* self.status_var: the text of the status line
    after           \* how many root.after(3000, ...) callbacks are pending

vars == <<tasks, file, current_filter, search_query, stats, pc, now, uuids, nops,
          disk, last, status_var, after>>

\* the moment the session starts, in minutes
StartTime == datetime(2026, 11, 4, 10, 0)
Minute == 1
Day == 24 * 60

\* dt.replace(hour=h, minute=mi, second=0, microsecond=0)
replace(n, h, mi) == n - (n % Day) + h * 60 + mi

\* what the user has entered in the input row or in the edit dialog
NoInput ==
    [text |-> <<>>, priority |-> Low, year |-> <<>>, month |-> <<>>, day |-> <<>>,
     hour |-> <<>>, minute |-> <<>>, notes |-> <<>>]

\* op: the handler; id, inp: its arguments; err: the error boxes it showed;
\* exc: it ended in an uncaught exception; save: how its save_tasks call went
\* ("none" when it made none); status: the message it gave show_status;
\* doc: the file import_tasks was pointed at; was: completed and completed_at
\* of the task toggle_task found, as they were before it ran
Report(op, id, inp, err, exc, save, status) ==
    [op |-> op, id |-> id, inp |-> inp, err |-> err, exc |-> exc, save |-> save,
     status |-> status, doc |-> NoFile, was |-> <<Absent, Absent>>]

SaveError(outcome) == IF outcome = "ok" THEN {} ELSE {"Failed to save tasks"}

\* ------------------------------------------------------------- show_status
\* the text create_status_bar gives the status line, and every timer sets again
ReadyMessage == "Ready for missions!"

\* show_status(message): the message is shown and one more reset is scheduled
show_status(message) ==
    /\ status_var' = message
    /\ after' = after + 1

\* the end of a handler: it calls show_status unless it returned or raised
\* before (message "")
Status(message) ==
    IF message = "" THEN UNCHANGED <<status_var, after>> ELSE show_status(message)

\* -------------------------------------------------------------- save_tasks
\* The disk is in one condition for the whole session.  "ok": the file is
\* rewritten; "readonly": open() raises and the file is as before; "full":
\* open() has truncated the file and the write raises
DiskConditions == {"ok", "readonly", "full"}

\* save_tasks that leaves the file as it is
save_tasks_skipped(outcome, ts, f) == f

save_tasks(outcome, ts, f) ==
    CASE outcome = "ok" -> JsonDump(ts)
      [] outcome = "readonly" -> f
      [] outcome = "full" -> Malformed

\* the stats shown after `render_tasks(); update_stats()` ran on ts, where
\* raised tells that one of the two raised
StatsAfter(ts, raised) == IF raised THEN stats ELSE StatsOf(ts)

\* ------------------------------------------------------------ load_tasks
load_tasksReadRaises(f) == f.kind \in {"unreadable", "malformed"}

\* load_tasks that empties the list before it reads the file
load_tasks_reset(ts, f) == IF f.kind = "array" THEN JsonLoad(f) ELSE <<>>

\* self.tasks after load_tasks
load_tasks(ts, f) == IF f.kind = "array" THEN JsonLoad(f) ELSE ts

\* load_tasks shows an error box
load_tasksError(ts, f) ==
    \/ load_tasksReadRaises(f)
    \/ f.kind = "array"
         /\ render_tasksRaises(load_tasks(ts, f), search_query, current_filter)

\* ------------------------------------------------------------- the seed
\* the four sample tasks; their texts and notes are cut to two characters
welcome_tasks(n, u) ==
    << Dict([NoKeys EXCEPT
          !["id"] = uuid4(u + 1),
          !["text"] = PyStr(<<"W", "e">>),
          !["completed"] = PyBool(FALSE),
          !["priority"] = PyStr(lower(High)),
          !["due_date"] = isoformat(replace(n, 17, 0) + 7 * Day),
          !["due_time"] = PyStr(<<"1", "7", ":", "0", "0">>),
          !["created_at"] = isoformat(n),
          !["notes"] = PyStr(<<"T", "h">>)]),
       Dict([NoKeys EXCEPT
          !["id"] = uuid4(u + 2),
          !["text"] = PyStr(<<"T", "e">>),
          !["completed"] = PyBool(FALSE),
          !["priority"] = PyStr(lower(Medium)),
          !["due_date"] = isoformat(replace(n, 9, 0) + Day),
          !["due_time"] = PyStr(<<"0", "9", ":", "0", "0">>),
          !["created_at"] = isoformat(n - Minute),
          !["notes"] = PyStr(<<"T", "r">>)]),
       Dict([NoKeys EXCEPT
          !["id"] = uuid4(u + 3),
          !["text"] = PyStr(<<"E", "x">>),
          !["completed"] = PyBool(FALSE),
          !["priority"] = PyStr(lower(Critical)),
          !["due_date"] = isoformat(replace(n, 17, 30)),
          !["due_time"] = PyStr(<<"1", "7", ":", "3", "0">>),
          !["created_at"] = isoformat(n - 2 * Minute),
          !["notes"] = PyStr(<<"C", "l">>)]),
       Dict([NoKeys EXCEPT
          !["id"] = uuid4(u + 4),
          !["text"] = PyStr(<<"E", "x">>),
          !["completed"] = PyBool(TRUE),
          !["priority"] = PyStr(lower(Low)),
          !["due_date"] = PyNone,
          !["created_at"] = isoformat(n - 3 * Minute),
          !["notes"] = PyStr(<<"Y", "o">>)]) >>

\* ------------------------------------------------------- initial states
\* a task written by add_task in an earlier session
SavedTask ==
    Dict([NoKeys EXCEPT
        !["id"] = uuid4(0 - 1),
        !["text"] = PyStr(<<"o", "l", "d">>),
        !["completed"] = PyBool(FALSE),
        !["priority"] = PyStr(lower(Medium)),
        !["due_date"] = PyNone,
        !["due_time"] = PyNone,
        !["created_at"] = isoformat(StartTime - Day),
        !["notes"] = PyStr(<<>>)])

\* a task that toggle_task completed in an earlier session
SavedDone ==
    Dict([NoKeys EXCEPT
        !["id"] = uuid4(0 - 2),
        !["text"] = PyStr(<<"d", "o", "n", "e">>),
        !["completed"] = PyBool(TRUE),
        !["priority"] = PyStr(lower(Low)),
        !["due_date"] = PyNone,
        !["due_time"] = PyNone,
        !["created_at"] = isoformat(StartTime - 2 * Day),
        !["notes"] = PyStr(<<>>),
        !["completed_at"] = isoformat(StartTime - Day)])

InitialFiles ==
    {NoFile, Unreadable, Malformed, JsonDump(<<>>), JsonDump(<<SavedTask>>),
     JsonDump(<<SavedDone>>), JsonDump(<<Number>>)}

Init ==
    /\ tasks = <<>>
    /\ file \in InitialFiles
    /\ current_filter = "all"
    /\ search_query = <<>>
    /\ stats = [total |-> 0, completed |-> 0, pending |-> 0]
    /\ pc = "start"
    /\ now = StartTime
    /\ uuids = 0
    /\ nops = 0
    /\ disk \in DiskConditions
    /\ last = Report("none", Absent, NoInput, {}, FALSE, "none", "")
    /\ status_var = ReadyMessage
    /\ after = 0

\* ---------------------------------------------------------------- __init__
\* load_tasks(); update_stats(); add_welcome_tasks_if_empty()
Startup ==
    /\ pc = "start"
    /\ LET loaded == load_tasks(tasks, file)
           loadErr == IF load_tasksError(tasks, file) THEN {"Failed to load tasks"} ELSE {}
       IN  IF update_statsRaises(loaded)
           THEN /\ tasks' = loaded
                /\ pc' = "crashed"
                /\ last' = Report("__init__", Absent, NoInput, loadErr, TRUE, "none", "")
                /\ UNCHANGED <<file, stats, uuids>>
           ELSE IF loaded = <<>>
           THEN LET outcome == disk IN
                /\ tasks' = welcome_tasks(now, uuids)
                /\ uuids' = uuids + Len(welcome_tasks(now, uuids))
                /\ file' = save_tasks(outcome, tasks', file)
                /\ stats' = StatsOf(loaded)
                /\ pc' = "idle"
                /\ last' = Report("__init__", Absent, NoInput,
                                  loadErr \cup SaveError(outcome), FALSE, outcome, "")
           ELSE /\ tasks' = loaded
                /\ stats' = StatsOf(loaded)
                /\ pc' = "idle"
                /\ last' = Report("__init__", Absent, NoInput, loadErr, FALSE, "none", "")
                /\ UNCHANGED <<file, uuids>>
    /\ UNCHANGED <<current_filter, search_query, now, nops, disk>>
    /\ UNCHANGED <<status_var, after>>

\* a handler can run: the main loop is running and the run is not over
Ready == pc = "idle" /\ nops < MaxOps

\* --------------------------------------------------------------- add_task
ValidDate ==
    [year |-> <<"2", "0", "2", "6">>, month |-> <<"1", "1">>, day |-> <<"0", "5">>,
     hour |-> <<"0", "9">>, minute |-> <<"1", "5">>]
InvalidDate ==
    [year |-> <<"2", "0", "2", "6">>, month |-> <<"0", "2">>, day |-> <<"3", "0">>,
     hour |-> <<"0", "9">>, minute |-> <<"1", "5">>]
NoDate == [year |-> <<>>, month |-> <<>>, day |-> <<>>, hour |-> <<>>, minute |-> <<>>]

Input(text, priority, date, notes) ==
    [text |-> text, priority |-> priority, year |-> date.year, month |-> date.month,
     day |-> date.day, hour |-> date.hour, minute |-> date.minute, notes |-> notes]

AddInputs ==
    {Input(<<" ", "B", "u", "y", " ">>, High, ValidDate, <<>>),
     Input(<<"a">>, Low, NoDate, <<>>),
     Input(<<" ", " ">>, Medium, ValidDate, <<>>),
     Input(<<"a">>, Critical, InvalidDate, <<>>)}

\* `if year and month and day` in add_task
HasDate(inp) == inp.year # <<>> /\ inp.month # <<>> /\ inp.day # <<>>

AddHour(inp) == IF inp.hour # <<>> THEN int(inp.hour) ELSE 23
AddMinute(inp) == IF inp.minute # <<>> THEN int(inp.minute) ELSE 59

\* the try block of add_task raises ValueError
AddDateRaises(inp) ==
    /\ HasDate(inp)
    /\ \/ intRaises(inp.year) \/ intRaises(inp.month) \/ intRaises(inp.day)
       \/ (inp.hour # <<>> /\ intRaises(inp.hour))
       \/ (inp.minute # <<>> /\ intRaises(inp.minute))
       \/ datetimeRaises(int(inp.year), int(inp.month), int(inp.day),
                         AddHour(inp), AddMinute(inp))

AddDueDate(inp) ==
    IF HasDate(inp)
    THEN isoformat(datetime(int(inp.year), int(inp.month), int(inp.day),
                            AddHour(inp), AddMinute(inp)))
    ELSE PyNone

DueTime(inp) == PyStr(inp.hour \o <<":">> \o inp.minute)

\* the dict add_task builds
NewTask(inp, id, n) ==
    Dict([NoKeys EXCEPT
        !["id"] = id,
        !["text"] = PyStr(strip(inp.text)),
        !["completed"] = PyBool(FALSE),
        !["priority"] = PyStr(lower(inp.priority)),
        !["due_date"] = AddDueDate(inp),
        !["due_time"] = IF inp.hour # <<>> /\ inp.minute # <<>> THEN DueTime(inp) ELSE PyNone,
        !["created_at"] = isoformat(n),
        !["notes"] = PyStr(<<>>)])

\* self.tasks.insert(0, task)
insert0(ts, t) == <<t>> \o ts

\* render_tasks() or update_stats() raised on ts
RefreshRaises(ts) ==
    render_tasksRaises(ts, search_query, current_filter) \/ update_statsRaises(ts)

add_task ==
    /\ Ready
    /\ Len(tasks) < MaxTasks
    /\ nops' = nops + 1
    /\ \E inp \in AddInputs :
         IF strip(inp.text) = <<>>
         THEN /\ last' = Report("add_task", Absent, inp, {"Please enter a task!"},
                                FALSE, "none", "")
              /\ UNCHANGED <<tasks, file, stats, uuids>>
         ELSE IF AddDateRaises(inp)
         THEN /\ last' = Report("add_task", Absent, inp, {"Invalid date/time"},
                                FALSE, "none", "")
              /\ UNCHANGED <<tasks, file, stats, uuids>>
         ELSE LET outcome == disk IN
              /\ tasks' = insert0(tasks, NewTask(inp, uuid4(uuids + 1), now))
              /\ uuids' = uuids + 1
              /\ file' = save_tasks(outcome, tasks', file)
              /\ LET raised == RefreshRaises(tasks') IN
                   /\ stats' = StatsAfter(tasks', raised)
                   /\ last' = Report("add_task", Absent, inp, SaveError(outcome),
                                raised, outcome,
                                IF raised THEN ""
                                ELSE "Mission added successfully!")
    /\ UNCHANGED <<current_filter, search_query, pc, now, disk>>
    /\ Status(last'.status)

\* ------------------------------------------------------------ toggle_task
\* the walk `for task in self.tasks: if task['id'] == task_id`: it raises at
\* the first element without an id, stops at the first match, or ends
RECURSIVE FindId(_, _, _)
FindId(ts, id, i) ==
    IF i > Len(ts) THEN [res |-> "none", i |-> 0]
    ELSE IF GetRaises(ts[i], "id") THEN [res |-> "raise", i |-> i]
    ELSE IF Get(ts[i], "id") = id THEN [res |-> "found", i |-> i]
    ELSE FindId(ts, id, i + 1)

\* an id no task carries
UnknownId == uuid4(0)

\* the ids the user acts on: the first and the last task's, and an unknown one
TargetIds ==
    {Get(tasks[i], "id") : i \in {j \in {1, Len(tasks)} : j \in DOMAIN tasks
                                                          /\ ~GetRaises(tasks[j], "id")}}
    \cup {UnknownId}

\* lines 543-544 applied to one task
Toggled(t, n) ==
    Set(Set(t, "completed", PyBool(~Truthy(Get(t, "completed")))),
        "completed_at",
        IF ~Truthy(Get(t, "completed")) THEN isoformat(n) ELSE PyNone)

\* the task the name `task` is bound to at line 551: the match, else the last
StatusTask(ts, found) == IF found.res = "found" THEN ts[found.i] ELSE ts[Len(ts)]

\* line 551 raises: `task` is unbound, or has no 'completed'
ToggleStatusRaises(ts, found) ==
    ts = <<>> \/ GetRaises(StatusTask(ts, found), "completed")

ToggleStatus(ts, found) ==
    IF Truthy(Get(StatusTask(ts, found), "completed"))
    THEN "Mission completed!" ELSE "Mission reopened!"

ToggleReport(ts, found, id, err, exc, save, status) ==
    [Report("toggle_task", id, NoInput, err, exc, save, status) EXCEPT
        !.was = IF found.res = "found"
                THEN <<ts[found.i].d["completed"], ts[found.i].d["completed_at"]>>
                ELSE <<Absent, Absent>>]

toggle_task ==
    /\ Ready
    /\ nops' = nops + 1
    /\ \E id \in TargetIds :
         LET found == FindId(tasks, id, 1)
         IN  IF \/ found.res = "raise"
                \/ (found.res = "found" /\ GetRaises(tasks[found.i], "completed"))
             THEN /\ last' = Report("toggle_task", id, NoInput, {}, TRUE, "none", "")
                  /\ UNCHANGED <<tasks, file, stats>>
             ELSE LET outcome == disk IN
                  /\ tasks' = IF found.res = "found"
                              THEN [tasks EXCEPT ![found.i] = Toggled(tasks[found.i], now)]
                              ELSE tasks
                  /\ file' = save_tasks(outcome, tasks', file)
                    /\ LET raised == RefreshRaises(tasks') IN
                         /\ stats' = StatsAfter(tasks', raised)
                         /\ last' = ToggleReport(tasks, found, id, SaveError(outcome),
                                    raised \/ ToggleStatusRaises(tasks', found),
                                    outcome,
                                    IF raised \/ ToggleStatusRaises(tasks', found)
                                    THEN "" ELSE ToggleStatus(tasks', found))
    /\ UNCHANGED <<current_filter, search_query, pc, now, uuids, disk>>
    /\ Status(last'.status)

\* ------------------------------------------------------------ delete_task
\* [t for t in self.tasks if t['id'] != task_id]
WithoutId(ts, id) == SelectSeq(ts, LAMBDA t : Get(t, "id") # id)

delete_task ==
    /\ Ready
    /\ nops' = nops + 1
    /\ \E id \in TargetIds, confirmed \in BOOLEAN :
         IF ~confirmed
         THEN /\ last' = Report("delete_task", id, NoInput, {}, FALSE, "none", "")
              /\ UNCHANGED <<tasks, file, stats>>
         ELSE IF \E i \in 1..Len(tasks) : GetRaises(tasks[i], "id")
         THEN /\ last' = Report("delete_task", id, NoInput, {}, TRUE, "none", "")
              /\ UNCHANGED <<tasks, file, stats>>
         ELSE LET outcome == disk IN
              /\ tasks' = WithoutId(tasks, id)
              /\ file' = save_tasks(outcome, tasks', file)
              /\ LET raised == RefreshRaises(tasks') IN
                   /\ stats' = StatsAfter(tasks', raised)
                   /\ last' = Report("delete_task", id, NoInput, SaveError(outcome),
                                raised, outcome,
                                IF raised THEN "" ELSE "Mission deleted!")
    /\ UNCHANGED <<current_filter, search_query, pc, now, uuids, disk>>
    /\ Status(last'.status)

\* ------------------------------------------------- edit_task, save_changes
EditInputs ==
    {Input(<<"c", " ">>, Critical, ValidDate, <<" ", "n">>),
     Input(<<" ">>, Low, ValidDate, <<>>),
     Input(<<"c">>, High, InvalidDate, <<"n">>)}

\* building the dialog raises: task['text'], task['priority'].capitalize()
DialogRaises(t) ==
    \/ GetRaises(t, "text")
    \/ GetRaises(t, "priority")
    \/ Get(t, "priority").t # "str"

\* save_changes with a datetime() that accepts any day
EditDateRaises_unchecked(inp) ==
    \/ intRaises(inp.year) \/ intRaises(inp.month) \/ intRaises(inp.day)
    \/ intRaises(inp.hour) \/ intRaises(inp.minute)

\* the try block of save_changes raises before it assigns anything
EditDateRaises(inp) ==
    \/ intRaises(inp.year) \/ intRaises(inp.month) \/ intRaises(inp.day)
    \/ intRaises(inp.hour) \/ intRaises(inp.minute)
    \/ datetimeRaises(int(inp.year), int(inp.month), int(inp.day),
                      int(inp.hour), int(inp.minute))

\* save_changes that also stamps created_at
Edited_restamped(t, inp, n) ==
    [t EXCEPT
        !.d["text"] = PyStr(strip(inp.text)),
        !.d["priority"] = PyStr(lower(inp.priority)),
        !.d["due_date"] = isoformat(datetime(int(inp.year), int(inp.month), int(inp.day),
                                             int(inp.hour), int(inp.minute))),
        !.d["due_time"] = DueTime(inp),
        !.d["notes"] = PyStr(strip(inp.notes)),
        !.d["updated_at"] = isoformat(n),
        !.d["created_at"] = isoformat(n)]

\* lines 721-726 applied to the task
Edited(t, inp, n) ==
    [t EXCEPT
        !.d["text"] = PyStr(strip(inp.text)),
        !.d["priority"] = PyStr(lower(inp.priority)),
        !.d["due_date"] = isoformat(datetime(int(inp.year), int(inp.month), int(inp.day),
                                             int(inp.hour), int(inp.minute))),
        !.d["due_time"] = DueTime(inp),
        !.d["notes"] = PyStr(strip(inp.notes)),
        !.d["updated_at"] = isoformat(n)]

\* edit_task(id) opens the dialog on a task and the user presses SAVE CHANGES
save_changes ==
    /\ Ready
    /\ nops' = nops + 1
    /\ \E id \in TargetIds, inp \in EditInputs :
         LET found == FindId(tasks, id, 1)
         IN  IF found.res = "none"
             THEN /\ last' = Report("edit_task", id, inp, {}, FALSE, "none", "")
                  /\ UNCHANGED <<tasks, file, stats>>
             ELSE IF found.res = "raise" \/ DialogRaises(tasks[found.i])
             THEN /\ last' = Report("edit_task", id, inp, {}, TRUE, "none", "")
                  /\ UNCHANGED <<tasks, file, stats>>
             ELSE IF EditDateRaises(inp)
             THEN /\ last' = Report("save_changes", id, inp, {"Failed to save changes"},
                                    FALSE, "none", "")
                  /\ UNCHANGED <<tasks, file, stats>>
             ELSE LET outcome == disk IN
                  /\ tasks' = [tasks EXCEPT ![found.i] = Edited(tasks[found.i], inp, now)]
                  /\ file' = save_tasks(outcome, tasks', file)
                    /\ LET raised == RefreshRaises(tasks') IN
                         /\ stats' = StatsAfter(tasks', raised)
                         /\ last' = Report("save_changes", id, inp,
                                    SaveError(outcome) \cup
                                      (IF raised
                                       THEN {"Failed to save changes"} ELSE {}),
                                    FALSE, outcome,
                                    IF raised THEN ""
                                    ELSE "Mission updated successfully!")
    /\ UNCHANGED <<current_filter, search_query, pc, now, uuids, disk>>
    /\ Status(last'.status)

\* --------------------------------------------------------- clear_all_tasks
\* clear_all_tasks that calls add_welcome_tasks_if_empty once it has cleared
clear_all_tasks_reseeding ==
    /\ Ready
    /\ nops' = nops + 1
    /\ \E confirmed \in BOOLEAN :
         IF ~confirmed
         THEN /\ last' = Report("clear_all_tasks", Absent, NoInput, {}, FALSE, "none", "")
              /\ UNCHANGED <<tasks, file, stats, uuids>>
         ELSE LET outcome == disk IN
              /\ tasks' = welcome_tasks(now, uuids)
              /\ uuids' = uuids + Len(welcome_tasks(now, uuids))
              /\ file' = save_tasks(outcome, tasks', file)
              /\ stats' = StatsOf(<<>>)
              /\ last' = Report("clear_all_tasks", Absent, NoInput, SaveError(outcome),
                                FALSE, outcome, "All missions cleared!")
    /\ UNCHANGED <<current_filter, search_query, pc, now, disk>>
    /\ Status(last'.status)

clear_all_tasks ==
    /\ Ready
    /\ nops' = nops + 1
    /\ \E confirmed \in BOOLEAN :
         IF ~confirmed
         THEN /\ last' = Report("clear_all_tasks", Absent, NoInput, {}, FALSE, "none", "")
              /\ UNCHANGED <<tasks, file, stats>>
         ELSE LET outcome == disk IN
              /\ tasks' = <<>>
              /\ file' = save_tasks(outcome, tasks', file)
              /\ LET raised == RefreshRaises(tasks') IN
                   /\ stats' = StatsAfter(tasks', raised)
                   /\ last' = Report("clear_all_tasks", Absent, NoInput, SaveError(outcome),
                                FALSE, outcome, "All missions cleared!")
    /\ UNCHANGED <<current_filter, search_query, pc, now, uuids, disk>>
    /\ Status(last'.status)

\* ------------------------------------------------------------ import_tasks
\* the dialog was cancelled: filename is ''
Cancelled == [kind |-> "cancelled", items |-> <<>>]

\* an exported task, and a second record that repeats its id
Exported(text) == NewTask(Input(text, Low, NoDate, <<>>), PyStr(<<"x">>), StartTime - Day)

\* a JSON object that has an id and nothing else
Lacking == Dict([NoKeys EXCEPT !["id"] = PyStr(<<"y">>)])

ImportFiles ==
    {Cancelled, Malformed, JsonObject,
     JsonDump(<<Exported(<<"p">>), Exported(<<"q">>)>>),
     JsonDump(<<Number, Exported(<<"p">>)>>),
     JsonDump(<<Lacking>>)}

\* import_tasks without the isinstance check
IsList_unchecked(doc) == TRUE

\* isinstance(imported_tasks, list)
IsList(doc) == doc.kind = "array"

ImportReport(doc, err, save, status) ==
    [Report("import_tasks", Absent, NoInput, err, FALSE, save, status) EXCEPT !.doc = doc]

import_tasks ==
    /\ Ready
    /\ nops' = nops + 1
    /\ \E doc \in ImportFiles :
         IF doc.kind = "cancelled"
         THEN /\ last' = ImportReport(doc, {}, "none", "")
              /\ UNCHANGED <<tasks, file, stats>>
         ELSE IF load_tasksReadRaises(doc) \/ doc.kind = "absent"
         THEN /\ last' = ImportReport(doc, {"Failed to import tasks"}, "none", "")
              /\ UNCHANGED <<tasks, file, stats>>
         ELSE IF ~IsList(doc)
         THEN /\ last' = ImportReport(doc, {"Invalid file format!"}, "none", "")
              /\ UNCHANGED <<tasks, file, stats>>
         ELSE LET outcome == disk IN
              /\ tasks' = JsonLoad(doc)
              /\ file' = save_tasks(outcome, tasks', file)
              /\ LET raised == RefreshRaises(tasks') IN
                   /\ stats' = StatsAfter(tasks', raised)
                   /\ last' = ImportReport(doc,
                                      SaveError(outcome) \cup
                                        (IF raised
                                         THEN {"Failed to import tasks"} ELSE {}),
                                      outcome,
                                      IF raised THEN "" ELSE "Tasks imported")
    /\ UNCHANGED <<current_filter, search_query, pc, now, uuids, disk>>
    /\ Status(last'.status)

\* ------------------------------------------------------------------- <F5>
\* (self.load_tasks(), self.render_tasks(), self.update_stats())
reload ==
    /\ Ready
    /\ nops' = nops + 1
    /\ tasks' = load_tasks(tasks, file)
    /\ LET raised == RefreshRaises(tasks') IN
         /\ stats' = StatsAfter(tasks', raised)
         /\ last' = Report("load_tasks", Absent, NoInput,
                      IF load_tasksError(tasks, file) THEN {"Failed to load tasks"} ELSE {},
                      raised, "none", "")
    /\ UNCHANGED <<file, current_filter, search_query, pc, now, uuids, disk>>
    /\ UNCHANGED <<status_var, after>>

\* -------------------------------------------------- set_filter, on_search
Filters == {"all", "pending", "completed", "high"}

\* set_filter that keeps the view as the collection
set_filter_sorting ==
    /\ Ready
    /\ nops' = nops + 1
    /\ \E f \in Filters :
         /\ current_filter' = f
         /\ tasks' = get_filtered_tasks(tasks, search_query, f)
         /\ last' = Report("set_filter", Absent, NoInput, {},
                           render_tasksRaises(tasks, search_query, f), "none", "")
    /\ UNCHANGED <<file, search_query, stats, pc, now, uuids, disk>>
    /\ UNCHANGED <<status_var, after>>

set_filter ==
    /\ Ready
    /\ nops' = nops + 1
    /\ \E f \in Filters :
         /\ current_filter' = f
         /\ last' = Report("set_filter", Absent, NoInput, {},
                           render_tasksRaises(tasks, search_query, f), "none", "")
    /\ UNCHANGED <<tasks, file, search_query, stats, pc, now, uuids, disk>>
    /\ UNCHANGED <<status_var, after>>

SearchInputs == {<<>>, <<"B", "U">>, <<"N">>}

on_search ==
    /\ Ready
    /\ nops' = nops + 1
    /\ \E text \in SearchInputs :
         /\ search_query' = lower(text)
         /\ last' = Report("on_search", Absent, [NoInput EXCEPT !.text = text], {},
                           render_tasksRaises(tasks, search_query', current_filter),
                           "none", "")
    /\ UNCHANGED <<tasks, file, current_filter, stats, pc, now, uuids, disk>>
    /\ UNCHANGED <<status_var, after>>

\* ------------------------------------------- toggle_theme, the reset timer
toggle_theme ==
    /\ Ready
    /\ nops' = nops + 1
    /\ last' = Report("toggle_theme", Absent, NoInput, {}, FALSE, "none",
                      "Theme toggle feature coming soon!")
    /\ show_status(last'.status)
    /\ UNCHANGED <<tasks, file, current_filter, search_query, stats, pc, now, uuids, disk>>

\* the main loop runs the oldest pending callback of show_status; all were
\* scheduled with the same delay, so they run in the order of the calls
reset_status ==
    /\ pc = "idle"
    /\ after > 0
    /\ after' = after - 1
    /\ status_var' = ReadyMessage
    /\ UNCHANGED <<tasks, file, current_filter, search_query, stats, pc, now, uuids, nops,
                   disk, last>>

\* the clock moves on between two handlers
Tick ==
    /\ pc = "idle"
    /\ now < StartTime + MaxClock
    /\ now' = now + 1
    /\ UNCHANGED <<tasks, file, current_filter, search_query, stats, pc, uuids, nops,
                   disk, last, status_var, after>>

\* The session as far as the collection and the file go.  set_filter and
\* on_search change neither; whether render_tasks raises on the records of
\* ImportFiles does not depend on the filter or the search text, so the
\* handlers below behave the same under every filter.
Next ==
    \/ Startup
    \/ add_task
    \/ toggle_task
    \/ delete_task
    \/ save_changes
    \/ clear_all_tasks
    \/ import_tasks
    \/ reload
    \/ Tick

Spec == Init /\ [][Next]_vars

\* The session as far as the view goes: tasks are added, completed and edited
\* while the user changes the filter and the search text
QueryNext ==
    \/ Startup
    \/ add_task
    \/ toggle_task
    \/ save_changes
    \/ set_filter
    \/ on_search
    \/ Tick

\* the view does not depend on the disk: a session in which every save succeeds
QueryInit == Init /\ disk = "ok"

QuerySpec == QueryInit /\ [][QueryNext]_vars

\* The session as far as the status line goes: handlers that show a message,
\* and the reset timers, in any interleaving
StatusNext ==
    \/ Startup
    \/ add_task
    \/ toggle_task
    \/ clear_all_tasks
    \/ toggle_theme
    \/ reset_status

StatusSpec == QueryInit /\ [][StatusNext]_vars

\* ============================================================== properties
\* this step ran the handler op
Ran(op) == last'.op = op /\ nops' = nops + 1

\* this step ran __init__ or a handler
Acted == pc' # pc \/ nops' # nops

AllSpace(s) == \A i \in 1..Len(s) : IsSpace(s[i])

Count(seq, x) == Cardinality({i \in DOMAIN seq : seq[i] = x})

HasId(t, id) == t.py = "dict" /\ t.d["id"] = id

\* C1: once startup is over and between handlers, if no write failed, the
\* backing file parses to exactly the in-memory collection, in the same order
C1_FileEqualsTasks ==
    (pc = "idle" /\ disk = "ok") => (file.kind = "array" /\ JsonLoad(file) = tasks)

C1_Witness ==
    /\ pc = "idle" /\ disk = "ok"
    /\ last.op = "add_task" /\ last.save = "ok"
    /\ Len(tasks) > 1

\* C2: every task has completed_at set (present and not None) exactly when its
\* completed flag is true
C2_CompletedAtIffCompleted ==
    pc = "idle" =>
        \A i \in 1..Len(tasks) :
            tasks[i].py = "dict" =>
                ((tasks[i].d["completed_at"] \notin {Absent, PyNone})
                    <=> Truthy(tasks[i].d["completed"]))

\* C3: no two tasks of the collection carry the same id
C3_UniqueIds ==
    \A i, j \in 1..Len(tasks) :
        (i < j /\ ~GetRaises(tasks[i], "id") /\ ~GetRaises(tasks[j], "id"))
            => Get(tasks[i], "id") # Get(tasks[j], "id")

\* C4: when a save fails while the file holds a complete collection, the file
\* afterwards holds that collection or the complete new one
C4_FailedSaveKeepsFile ==
    [][(Acted /\ last'.save \in {"readonly", "full"} /\ file.kind = "array")
          => file' \in {file, JsonDump(tasks')}]_vars

\* C5: a reload whose file is missing, unreadable or not JSON leaves the
\* collection as it was, and any reload leaves it as it was or replaces it by
\* the whole content of the file
C5_FailedLoadKeepsTasks ==
    [][Ran("load_tasks") =>
          /\ file.kind \in {"absent", "unreadable", "malformed"} => tasks' = tasks
          /\ tasks' = tasks \/ (file.kind = "array" /\ tasks' = JsonLoad(file))]_vars

C5_Witness ==
    /\ last.op = "load_tasks"
    /\ file.kind = "malformed"
    /\ "Failed to load tasks" \in last.err
    /\ tasks # <<>>

\* C6: importing a file whose top-level value is not an array shows an error
\* and changes neither the collection nor the backing file
C6_ImportObjectRejected ==
    [][(Ran("import_tasks") /\ last'.doc.kind = "object")
          => (last'.err # {} /\ tasks' = tasks /\ file' = file)]_vars

C6_Witness ==
    /\ last.op = "import_tasks"
    /\ last.doc.kind = "object"
    /\ "Invalid file format!" \in last.err
    /\ tasks # <<>>

\* the record has the members a task needs
TaskShaped(j) ==
    /\ j.js = "object"
    /\ \A k \in {"id", "text", "completed", "priority", "created_at"} : j.d[k] # Absent

\* C7: importing an array with an element that is not a task-shaped record
\* shows an error and does not change the collection
C7_ImportJunkRejected ==
    [][(/\ Ran("import_tasks")
        /\ last'.doc.kind = "array"
        /\ \E i \in 1..Len(last'.doc.items) : ~TaskShaped(last'.doc.items[i]))
          => (last'.err # {} /\ tasks' = tasks)]_vars

\* C8: add_task with a text of nothing but whitespace shows an error and
\* changes neither the collection nor the backing file
C8_AddEmptyRejected ==
    [][(Ran("add_task") /\ AllSpace(last'.inp.text))
          => (last'.err # {} /\ tasks' = tasks /\ file' = file)]_vars

C8_Witness ==
    /\ last.op = "add_task"
    /\ last.inp.text = <<" ", " ">>
    /\ "Please enter a task!" \in last.err
    /\ tasks # <<>>

\* the date fields of an input
DateOf(inp) ==
    [year |-> inp.year, month |-> inp.month, day |-> inp.day, hour |-> inp.hour,
     minute |-> inp.minute]

\* query(all, ""): the tasks shown with no filter and no search text
QueryAll(ts) == get_filtered_tasks(ts, <<>>, "all")

\* C9: add_task with a non-empty trimmed text and a valid (or no) due date puts
\* exactly one new task at index 0, with the submitted text, priority and due
\* date, completed false and an id no other task has; the tasks that were
\* there follow it unchanged and in order; query(all, "") then returns the new
\* task once, together with exactly the previous tasks
C9_AddPrepends ==
    [][(/\ Ran("add_task")
        /\ ~AllSpace(last'.inp.text)
        /\ DateOf(last'.inp) \in {ValidDate, NoDate})
          => /\ Len(tasks') = Len(tasks) + 1
             /\ Tail(tasks') = tasks
             /\ Get(tasks'[1], "text") = PyStr(strip(last'.inp.text))
             /\ Get(tasks'[1], "priority") = PyStr(lower(last'.inp.priority))
             /\ Get(tasks'[1], "due_date") = AddDueDate(last'.inp)
             /\ Get(tasks'[1], "completed") = PyBool(FALSE)
             /\ \A i \in 1..Len(tasks) : ~HasId(tasks[i], Get(tasks'[1], "id"))
             /\ ~get_filtered_tasksRaises(tasks', <<>>, "all")
             /\ Count(QueryAll(tasks'), tasks'[1]) = 1
             /\ \A i \in 1..Len(tasks') :
                    Count(QueryAll(tasks'), tasks'[i]) = Count(tasks', tasks'[i])
             /\ Len(QueryAll(tasks')) = Len(tasks')]_vars

\* the first position of the task with this id
IndexOf(ts, id) == CHOOSE i \in 1..Len(ts) : HasId(ts[i], id) /\ \A j \in 1..(i - 1) : ~HasId(ts[j], id)

\* C10: toggle_task on the id of a task of the collection negates completed of
\* that task (the first with the id, which has a completed flag),
\* sets its completed_at to the current time when it becomes completed and to
\* None when it is reopened, and changes nothing else: no other key of the
\* task, no other task, neither the order nor the length of the collection
C10_ToggleFlipsOne ==
    [][(/\ Ran("toggle_task")
        /\ \E i \in 1..Len(tasks) : HasId(tasks[i], last'.id)
        /\ ~GetRaises(tasks[IndexOf(tasks, last'.id)], "completed"))
          => LET i == IndexOf(tasks, last'.id)
             IN  /\ Len(tasks') = Len(tasks)
                 /\ \A j \in 1..Len(tasks) : j # i => tasks'[j] = tasks[j]
                 /\ tasks'[i].d["completed"] = PyBool(~Truthy(tasks[i].d["completed"]))
                 /\ tasks'[i].d["completed_at"] =
                        (IF ~Truthy(tasks[i].d["completed"]) THEN isoformat(now) ELSE PyNone)
                 /\ \A k \in Keys \ {"completed", "completed_at"} :
                        tasks'[i].d[k] = tasks[i].d[k]]_vars

\* completed_at holds no time
Unset(v) == v \in {Absent, PyNone}

\* C11: when toggle_task has flipped a task (one whose completed_at was set
\* exactly if it was completed) and is run again on the same id, completed and
\* completed_at of the task are again what they were before the first of the
\* two calls
C11_ToggleTwiceRestores ==
    [][(/\ Ran("toggle_task")
        /\ last.op = "toggle_task"
        /\ last.id = last'.id
        /\ last.was[1] # Absent
        /\ Unset(last.was[2]) <=> ~Truthy(last.was[1])
        /\ \E i \in 1..Len(tasks) : HasId(tasks[i], last'.id))
          => LET t == tasks'[IndexOf(tasks, last'.id)]
             IN  /\ t.d["completed"] = last.was[1]
                 /\ \/ t.d["completed_at"] = last.was[2]
                    \/ Unset(t.d["completed_at"]) /\ Unset(last.was[2])]_vars

\* C12: toggle_task with an id no task of the collection carries fails: it
\* shows no message of a completion or a reopening, it ends in an error, and
\* the collection is as before
C12_ToggleUnknownFails ==
    [][(Ran("toggle_task") /\ \A i \in 1..Len(tasks) : ~HasId(tasks[i], last'.id))
          => /\ tasks' = tasks
             /\ last'.status = ""
             /\ last'.exc \/ last'.err # {}]_vars

\* C13: save_changes with due-date fields that are no calendar date (month
\* 02, day 30) shows an error and leaves the whole collection, the edited task
\* included, and the backing file as they were
C13_EditInvalidDateRejected ==
    [][(Ran("save_changes") /\ DateOf(last'.inp) = InvalidDate)
          => (last'.err # {} /\ tasks' = tasks /\ file' = file)]_vars

C13_Witness ==
    /\ last.op = "save_changes"
    /\ DateOf(last.inp) = InvalidDate
    /\ "Failed to save changes" \in last.err
    /\ \E i \in 1..Len(tasks) :
          HasId(tasks[i], last.id) /\ tasks[i].d["text"] # PyStr(strip(last.inp.text))
    /\ file.kind = "array"

\* C14: save_changes with a text of nothing but whitespace shows an error and
\* leaves the collection as it was
C14_EditEmptyRejected ==
    [][(Ran("save_changes") /\ AllSpace(last'.inp.text))
          => (last'.err # {} /\ tasks' = tasks)]_vars

\* the keys save_changes assigns
EditedKeys == {"text", "priority", "due_date", "due_time", "notes", "updated_at"}

\* C15: save_changes changes nothing but text, priority, due date, due time,
\* notes and updated_at of the task it was opened on: id, created_at, completed
\* and completed_at of that task, every other task, and the order and length
\* of the collection stay; when it succeeds updated_at is the current time;
\* and no toggle_task or edit changes the created_at of any task
C15_EditFrame ==
    [][/\ (Ran("save_changes") /\ tasks' # tasks)
            => /\ \E i \in 1..Len(tasks) : HasId(tasks[i], last'.id)
               /\ Len(tasks') = Len(tasks)
               /\ \A j \in 1..Len(tasks) :
                     j # IndexOf(tasks, last'.id) => tasks'[j] = tasks[j]
               /\ \A k \in Keys \ EditedKeys :
                     tasks'[IndexOf(tasks, last'.id)].d[k] = tasks[IndexOf(tasks, last'.id)].d[k]
       /\ (Ran("save_changes") /\ last'.status = "Mission updated successfully!")
            => tasks'[IndexOf(tasks, last'.id)].d["updated_at"] = isoformat(now)
       /\ (Ran("save_changes") \/ Ran("edit_task") \/ Ran("toggle_task"))
            => /\ Len(tasks') = Len(tasks)
               /\ \A j \in 1..Len(tasks) :
                     tasks'[j].d["created_at"] = tasks[j].d["created_at"]]_vars

C15_Witness ==
    /\ last.op = "save_changes"
    /\ last.status = "Mission updated successfully!"
    /\ Len(tasks) > 1
    /\ \E i \in 1..Len(tasks) :
          /\ HasId(tasks[i], last.id)
          /\ tasks[i].d["updated_at"] = isoformat(now)
          /\ tasks[i].d["created_at"] # isoformat(now)
          /\ tasks[i].d["text"] = PyStr(strip(last.inp.text))

\* C16: delete_task, when the user declines (nothing is saved and nothing is
\* raised), leaves the collection and the backing file as they were; when the
\* user confirms, it ends without an error of its own and the collection is
\* the previous one without the tasks that carry the id, the others unchanged
\* and in their order (so unchanged as a whole when no task carries the id)
C16_DeleteRemovesOne ==
    [][Ran("delete_task") =>
          IF last'.save = "none" /\ ~last'.exc
          THEN tasks' = tasks /\ file' = file
          ELSE /\ tasks' = SelectSeq(tasks, LAMBDA t : ~HasId(t, last'.id))
               /\ ~last'.exc
               /\ last'.err \subseteq SaveError(last'.save)]_vars

\* the view: what get_filtered_tasks returns in this state
View == get_filtered_tasks(tasks, search_query, current_filter)

\* C17: set_filter and on_search change neither the collection nor the
\* backing file, whatever the filter and the search text; and what a handler
\* saves under a filter or a search is the collection in its stored order,
\* not the view
C17_QueryIsPure ==
    [][/\ (Ran("set_filter") \/ Ran("on_search")) => (tasks' = tasks /\ file' = file)
       /\ (Acted /\ last'.save = "ok") => JsonLoad(file') = tasks']_vars

C17_Witness ==
    /\ last.op = "set_filter"
    /\ file.kind = "array"
    /\ Len(View) = Len(tasks)
    /\ View # tasks

\* what the claim lets through each filter
Passes(t, f) ==
    CASE f = "pending" -> t.d["completed"] = PyBool(FALSE)
      [] f = "completed" -> t.d["completed"] = PyBool(TRUE)
      [] f = "high" -> t.d["priority"] \in {PyStr(<<"h", "i", "g", "h">>),
                                            PyStr(<<"c", "r", "i", "t", "i", "c", "a", "l">>)}
      [] f = "all" -> TRUE

Rank(t) ==
    CASE t.d["priority"] = PyStr(<<"c", "r", "i", "t", "i", "c", "a", "l">>) -> 4
      [] t.d["priority"] = PyStr(<<"h", "i", "g", "h">>) -> 3
      [] t.d["priority"] = PyStr(<<"m", "e", "d", "i", "u", "m">>) -> 2
      [] OTHER -> 1

\* a comes before b in the order of the claim, ts being the stored collection
Before(ts, a, b) ==
    \/ Rank(a) > Rank(b)
    \/ Rank(a) = Rank(b) /\ a.d["created_at"].n > b.d["created_at"].n
    \/ /\ Rank(a) = Rank(b)
       /\ a.d["created_at"].n = b.d["created_at"].n
       /\ IndexOf(ts, a.d["id"]) < IndexOf(ts, b.d["id"])

\* the k-th task of the example, added at time n
ExampleTask(k, priority, n) ==
    NewTask(Input(<<"t">>, priority, NoDate, <<>>), uuid4(k), n)

\* tasks of priority low, critical, medium, critical added in that order, the
\* k-th one at StartTime + k * step
ExampleTasks(step) ==
    insert0(insert0(insert0(insert0(<<>>,
        ExampleTask(1, Low, StartTime + step)),
        ExampleTask(2, Critical, StartTime + 2 * step)),
        ExampleTask(3, Medium, StartTime + 3 * step)),
        ExampleTask(4, Critical, StartTime + 4 * step))

\* the view of the example: second critical, first critical, medium, low
ExampleView(step) ==
    << ExampleTask(4, Critical, StartTime + 4 * step),
       ExampleTask(2, Critical, StartTime + 2 * step),
       ExampleTask(3, Medium, StartTime + 3 * step),
       ExampleTask(1, Low, StartTime + step) >>

\* C19: in what get_filtered_tasks returns, a task of higher priority comes
\* first, among equal priorities the one created later comes first, and tasks
\* equal in both stand in the order of the stored collection; the four tasks
\* of the example, added in the same minute or a minute apart, come back as
\* second critical, first critical, medium, low
C19_SortOrder ==
    /\ pc = "idle" =>
          LET r == View
          IN  \A i, j \in 1..Len(r) : i < j => Before(tasks, r[i], r[j])
    /\ \A step \in {0, Minute} :
          get_filtered_tasks(ExampleTasks(step), <<>>, "all") = ExampleView(step)

C19_Witness ==
    /\ pc = "idle"
    /\ last.op = "add_task"
    /\ View # Filtered(tasks, search_query, current_filter)
    /\ \E i, j \in 1..Len(View) :
          /\ i < j
          /\ Rank(View[i]) = Rank(View[j])
          /\ View[i].d["created_at"] = View[j].d["created_at"]
    /\ \E i, j \in 1..Len(View) :
          /\ i < j
          /\ Rank(View[i]) = Rank(View[j])
          /\ View[i].d["created_at"].n > View[j].d["created_at"].n

\* a lower-case letter and its capital
CasePairs ==
    {<<"a", "A">>, <<"b", "B">>, <<"c", "C">>, <<"d", "D">>, <<"e", "E">>, <<"f", "F">>,
     <<"g", "G">>, <<"h", "H">>, <<"i", "I">>, <<"j", "J">>, <<"k", "K">>, <<"l", "L">>,
     <<"m", "M">>, <<"n", "N">>, <<"o", "O">>, <<"p", "P">>, <<"q", "Q">>, <<"r", "R">>,
     <<"s", "S">>, <<"t", "T">>, <<"u", "U">>, <<"v", "V">>, <<"w", "W">>, <<"x", "X">>,
     <<"y", "Y">>, <<"z", "Z">>}

\* the same character, the case of letters set aside
SameLetter(a, b) == a = b \/ <<a, b>> \in CasePairs \/ <<b, a>> \in CasePairs

\* hay contains needle, compared case-insensitively
ContainsIgnoringCase(hay, needle) ==
    \E i \in 0..(Len(hay) - Len(needle)) :
        \A k \in 1..Len(needle) : SameLetter(hay[i + k], needle[k])

\* the task is one the claim lets through the search text s
Found(t, s) ==
    \/ s = <<>>
    \/ ContainsIgnoringCase(t.d["text"].s, s)
    \/ ContainsIgnoringCase(t.d["notes"].s, s)

\* the sequence r holds exactly the tasks of ts that pass the filter f and the
\* search text s
SearchExact(ts, r, f, s) ==
    /\ \A i \in 1..Len(ts) :
          Count(r, ts[i]) = IF Passes(ts[i], f) /\ Found(ts[i], s)
                            THEN Count(ts, ts[i]) ELSE 0
    /\ \A i \in 1..Len(r) : Count(ts, r[i]) > 0

\* the task of the example
DeployRocket ==
    NewTask(Input(<<"D", "e", "p", "l", "o", "y", " ", "R", "o", "c", "k", "e", "t">>,
                  Low, NoDate, <<>>), uuid4(1), StartTime)

C21_SaveLoadRoundTrip ==
    [][(Ran("load_tasks") /\ last.save = "ok")
          => /\ tasks' = tasks
             /\ tasks' = JsonLoad(file)
             /\ get_filtered_tasksRaises(tasks', search_query, current_filter)
                  = get_filtered_tasksRaises(tasks, search_query, current_filter)
             /\ get_filtered_tasks(tasks', search_query, current_filter)
                  = get_filtered_tasks(tasks, search_query, current_filter)]_vars

C21_Witness ==
    /\ last.op = "load_tasks"
    /\ last.err = {}
    /\ file = JsonDump(tasks)
    /\ Len(tasks) > 1
    /\ \E i \in 1..Len(tasks) : tasks[i].d["completed_at"] \notin {Absent, PyNone}
    /\ \E i \in 1..Len(tasks) : tasks[i].d["due_date"] = PyNone

\* the texts of the sample tasks
SampleTexts == {PyStr(<<"W", "e">>), PyStr(<<"T", "e">>), PyStr(<<"E", "x">>)}

\* C22: startup, when the load leaves the collection empty, makes it the four
\* sample tasks with four new ids and saves it; when the load leaves it
\* non-empty, startup adds nothing and saves nothing; and no handler of the
\* session brings in a sample task that was not there before it ran or draws
\* more than the one id of add_task, in particular none that empties the
\* collection or finds it empty; a confirmed clear_all_tasks leaves it empty
C22_SeedOnlyAtStartup ==
    [][/\ (pc = "start" /\ pc' = "idle")
            => IF file.kind = "array" /\ file.items # <<>>
               THEN tasks' = JsonLoad(file) /\ uuids' = uuids /\ file' = file
               ELSE /\ Len(tasks') = 4
                    /\ \A i \in 1..4 : tasks'[i].d["text"] \in SampleTexts
                    /\ \A i \in 1..4 : tasks'[i].d["id"] = uuid4(uuids + i)
                    /\ uuids' = uuids + 4
                    /\ last'.save # "none"
                    /\ last'.save = "ok" => file' = JsonDump(tasks')
       /\ nops' # nops
            => /\ uuids' \in {uuids, uuids + 1}
               /\ \A i \in 1..Len(tasks') :
                     tasks'[i].d["text"] \in SampleTexts
                        => \E j \in 1..Len(tasks) : tasks[j].d["id"] = tasks'[i].d["id"]
               /\ (Ran("clear_all_tasks") /\ last'.save # "none") => tasks' = <<>>]_vars

C22_Witness ==
    /\ last.op = "load_tasks"
    /\ uuids = 4
    /\ tasks = <<>>
    /\ file = JsonDump(<<>>)

\* C23: between handlers the statistics shown are those of the collection:
\* total its length, completed the number of tasks with completed true,
\* pending the rest
C23_StatsAgree ==
    pc = "idle" =>
        /\ stats.total = Len(tasks)
        /\ stats.completed
             = Cardinality({i \in 1..Len(tasks) : tasks[i].d["completed"] = PyBool(TRUE)})
        /\ stats.pending = stats.total - stats.completed

\* C24: a startup that finds the backing file unreadable or not JSON leaves
\* the file as it found it
C24_FailedStartupKeepsFile ==
    [][(pc = "start" /\ pc' # "start" /\ file.kind \in {"unreadable", "malformed"})
          => file' = file]_vars

\* C25: a reset callback that clears a message is that message's own: when a
\* callback runs while a message is shown, no other callback is pending (the
\* oldest pending callback is the one the last show_status call scheduled)
C25_OwnTimerClears ==
    [][(after' = after - 1 /\ status_var # ReadyMessage) => after = 1]_vars

====
